---- MODULE Spec2Model ----
(***************************************************************************)
(* The Reveal trait of mpc-algebra/src/reveal.rs and its implementations   *)
(* for usize, PhantomData, Vec, BTreeMap, Option, Rc, pairs and the two    *)
(* struct macros.                                                          *)
(*                                                                         *)
(* A type is a descriptor record (field c names the constructor); a call   *)
(* is dispatched statically on the descriptor, as rustc dispatches on the  *)
(* type.  A call returns [ok |-> TRUE, v |-> value] or, when it panics,    *)
(* [ok |-> FALSE, v |-> the panic payload].                                *)
(*                                                                         *)
(* Values: usize is a number; PhantomData is the unit "PhantomData"; a Vec *)
(* is a sequence; a BTreeMap is a function on its key set; an Option is    *)
(* [some |-> FALSE] or [some |-> TRUE, x |-> v]; a pair is a 2-tuple; a    *)
(* struct is a record; an Rc is the address of a cell of the heap.         *)
(***************************************************************************)
EXTENDS Integers, Sequences, FiniteSets, TLC

VARIABLES
    ty,      \* the type Self of the value under conversion
    side,    \* "Self", "Base", or "Panic" once a call has panicked
    val,     \* the value (an address when ty is an Rc), or the panic payload
    heap,    \* the live Rc cells: address -> [strong, x]
    lastOp,  \* the trait method called last ("new" before the first call)
    prevOp,  \* the method called before lastOp
    arg,     \* the argument of the last call
    heap0,   \* the heap when the last call was made
    pub      \* the (dereferenced) argument of the last from_public

vars == <<ty, side, val, heap, lastOp, prevOp, arg, heap0, pub>>

(***************************************************************************)
(* Bounds                                                                  *)
(***************************************************************************)
MaxVal == 1      \* usize and leaf contents range over 0..MaxVal
MaxLen == 2      \* a Vec has at most MaxLen elements, a BTreeMap MaxLen keys
MaxHolders == 2  \* an Rc cell starts with at most MaxHolders other holders

MaxAddr == 3     \* heap addresses: the held cell, the argument, the result

Addr == 1 .. MaxAddr

Ops == {"reveal", "from_public", "from_add_shared", "unwrap_as_public"}

\* The methods that take self (the others take a Base).
TakesSelf(op) == op \in {"reveal", "unwrap_as_public"}

(***************************************************************************)
(* Type descriptors                                                        *)
(***************************************************************************)
USIZE == [c |-> "usize"]
\* A leaf type from outside reveal.rs that carries a representation tag
\* and does not override unwrap_as_public.
SHARE == [c |-> "share"]
PhantomT(t) == [c |-> "phantom", t |-> t]
VecT(t) == [c |-> "vec", t |-> t]
MapT(k, v) == [c |-> "map", k |-> k, v |-> v]
OptionT(t) == [c |-> "option", t |-> t]
RcT(t) == [c |-> "rc", t |-> t]
PairT(a, b) == [c |-> "pair", a |-> a, b |-> b]
\* A struct S { a: ta, b: tb, c: tc } whose impl body is generated by
\* struct_reveal_impl (macro = "typed") or struct_reveal_simp_impl ("simp").
Fields == <<"a", "b", "c">>
StructT(macro, ta, tb, tc) ==
    [c |-> "struct", macro |-> macro, f |-> [a |-> ta, b |-> tb, c |-> tc]]

\* The types the model converts values of.
TestTypes ==
    { USIZE, SHARE, PhantomT(SHARE), PhantomT(USIZE),
      VecT(USIZE), VecT(SHARE), VecT(OptionT(SHARE)), VecT(PhantomT(SHARE)),
      VecT(PairT(USIZE, USIZE)),
      OptionT(USIZE), OptionT(SHARE), OptionT(VecT(SHARE)),
      PairT(USIZE, SHARE), PairT(VecT(USIZE), OptionT(USIZE)),
      PairT(USIZE, PhantomT(SHARE)),
      MapT(USIZE, USIZE), MapT(USIZE, SHARE), MapT(SHARE, USIZE),
      MapT(USIZE, OptionT(USIZE)), MapT(SHARE, SHARE),
      RcT(USIZE), RcT(SHARE), RcT(VecT(USIZE)), RcT(OptionT(SHARE)),
      StructT("typed", USIZE, SHARE, VecT(USIZE)),
      StructT("simp", USIZE, SHARE, VecT(USIZE)),
      StructT("typed", USIZE, OptionT(USIZE), PhantomT(SHARE)),
      StructT("simp", USIZE, OptionT(USIZE), PhantomT(SHARE)) }

PhantomData == "PhantomData"
None == [some |-> FALSE]
Some(x) == [some |-> TRUE, x |-> x]

RECURSIVE SelfVals(_)
\* The values of type t (for an Rc: the values of its pointee).
SelfVals(t) ==
    CASE t.c = "usize" -> 0 .. MaxVal
      [] t.c = "share" -> [rep : {"Public", "Shared"}, n : 0 .. MaxVal]
      [] t.c = "phantom" -> {PhantomData}
      [] t.c = "vec" -> UNION {[1 .. n -> SelfVals(t.t)] : n \in 0 .. MaxLen}
      [] t.c = "map" ->
            UNION {[D -> SelfVals(t.v)] :
                     D \in {E \in SUBSET SelfVals(t.k) : Cardinality(E) <= MaxLen}}
      [] t.c = "option" -> {None} \cup {Some(x) : x \in SelfVals(t.t)}
      [] t.c = "rc" -> SelfVals(t.t)
      [] t.c = "pair" -> SelfVals(t.a) \X SelfVals(t.b)
      [] t.c = "struct" ->
            [a : SelfVals(t.f.a), b : SelfVals(t.f.b), c : SelfVals(t.f.c)]

RECURSIVE BaseVals(_)
\* The values of type t::Base (for an Rc: the values of its pointee).
BaseVals(t) ==
    CASE t.c = "usize" -> 0 .. MaxVal
      [] t.c = "share" -> 0 .. MaxVal
      [] t.c = "phantom" -> {PhantomData}
      [] t.c = "vec" -> UNION {[1 .. n -> BaseVals(t.t)] : n \in 0 .. MaxLen}
      [] t.c = "map" ->
            UNION {[D -> BaseVals(t.v)] :
                     D \in {E \in SUBSET BaseVals(t.k) : Cardinality(E) <= MaxLen}}
      [] t.c = "option" -> {None} \cup {Some(x) : x \in BaseVals(t.t)}
      [] t.c = "rc" -> BaseVals(t.t)
      [] t.c = "pair" -> BaseVals(t.a) \X BaseVals(t.b)
      [] t.c = "struct" ->
            [a : BaseVals(t.f.a), b : BaseVals(t.f.b), c : BaseVals(t.f.c)]

(***************************************************************************)
(* Results                                                                 *)
(***************************************************************************)
Ok(x) == [ok |-> TRUE, v |-> x]
\* unimplemented!("No unwrap as public for {}", type_name::<Self>())
Panic(typeName) ==
    [ok |-> FALSE, v |-> [msg |-> "No unwrap as public for", type |-> typeName]]

RECURSIVE Apply(_, _, _)

(***************************************************************************)
(* trait Reveal: the default body of unwrap_as_public                      *)
(***************************************************************************)
\* Mutant: the default returns its receiver instead of panicking.
default_unwrap_silent(typeName, self) == Ok(self)

default_unwrap_as_public(typeName, self) == Panic(typeName)

(***************************************************************************)
(* impl Reveal for usize                                                   *)
(***************************************************************************)
\* Mutant: usize without its override of unwrap_as_public.
usize_impl_no_override(op, x) ==
    IF op = "unwrap_as_public" THEN default_unwrap_as_public("usize", x)
    ELSE Ok(x)

\* Mutant: from_public builds the default value, as PhantomData's does.
usize_impl_default(op, x) == IF op = "from_public" THEN Ok(0) ELSE Ok(x)

usize_impl(op, x) ==
    CASE op = "reveal" -> Ok(x)
      [] op = "from_add_shared" -> Ok(x)
      [] op = "from_public" -> Ok(x)
      [] op = "unwrap_as_public" -> Ok(x)

(***************************************************************************)
(* A leaf with a representation tag: reveal strips the tag, from_public    *)
(* and from_add_shared set it, unwrap_as_public is the trait's default.    *)
(***************************************************************************)
share_reveal(self) == Ok(self.n)
share_from_add_shared(b) == Ok([rep |-> "Shared", n |-> b])
share_from_public(b) == Ok([rep |-> "Public", n |-> b])

\* The tagged leaf orders as a derived Ord does (by variant, then by
\* content), its Base as numbers do.
share_less(isSelf, x, y) ==
    IF isSelf
    THEN \/ x.rep = "Public" /\ y.rep = "Shared"
         \/ x.rep = y.rep /\ x.n < y.n
    ELSE x < y

share_impl(op, x) ==
    CASE op = "reveal" -> share_reveal(x)
      [] op = "from_add_shared" -> share_from_add_shared(x)
      [] op = "from_public" -> share_from_public(x)
      [] op = "unwrap_as_public" -> default_unwrap_as_public("share", x)

(***************************************************************************)
(* impl<T: Reveal> Reveal for PhantomData<T>                               *)
(***************************************************************************)
\* Mutant: PhantomData without its override of unwrap_as_public.
PhantomData_impl_no_override(op, x) ==
    IF op = "unwrap_as_public" THEN default_unwrap_as_public("phantom", x)
    ELSE Ok(PhantomData)

PhantomData_impl(op, x) ==
    CASE op = "reveal" -> Ok(PhantomData)
      [] op = "from_add_shared" -> Ok(PhantomData)
      [] op = "from_public" -> Ok(PhantomData)
      [] op = "unwrap_as_public" -> Ok(PhantomData)

(***************************************************************************)
(* impl<T: Reveal> Reveal for Vec<T>                                       *)
(***************************************************************************)
RECURSIVE VecCollect(_, _, _, _, _)
\* Mutant: an element whose conversion panics is left out of the result.
VecCollect_filter(op, t, s, i, acc) ==
    IF i > Len(s) THEN Ok(acc)
    ELSE LET r == Apply(op, t, s[i])
         IN  VecCollect(op, t, s, i + 1, IF r.ok THEN Append(acc, r.v) ELSE acc)

\* self.into_iter().map(|x| op(x)).collect(): the elements from index i on
\* are converted in order and pushed on acc; a panic ends the call.
VecCollect(op, t, s, i, acc) ==
    IF i > Len(s) THEN Ok(acc)
    ELSE LET r == Apply(op, t, s[i])
         IN  IF r.ok THEN VecCollect(op, t, s, i + 1, Append(acc, r.v)) ELSE r

\* Mutant: the elements are collected in reverse order.
Vec_impl_rev(op, t, s) ==
    VecCollect(op, t, [i \in 1 .. Len(s) |-> s[Len(s) + 1 - i]], 1, <<>>)

Vec_impl(op, t, s) == VecCollect(op, t, s, 1, <<>>)

(***************************************************************************)
(* impl<K: Reveal + Ord, V: Reveal> Reveal for BTreeMap<K, V>              *)
(*   where K::Base: Ord                                                    *)
(***************************************************************************)
\* The order of the keys of type kt (isSelf) or kt::Base (otherwise).
KeyLess(kt, isSelf, x, y) ==
    CASE kt.c = "usize" -> x < y
      [] kt.c = "share" -> share_less(isSelf, x, y)

\* The first key of the iteration over the keys in todo.
FirstKey(kt, isSelf, todo) ==
    CHOOSE k \in todo : \A j \in todo : j = k \/ KeyLess(kt, isSelf, k, j)

\* collect() into a BTreeMap: a later entry replaces an earlier one with an
\* equal key.
MapInsert(m, k, v) == [x \in DOMAIN m \cup {k} |-> IF x = k THEN v ELSE m[x]]

RECURSIVE MapCollect(_, _, _, _, _, _)
\* self.into_iter().map(|x| op(x)).collect(): each (key, value) entry, in
\* key order, is converted as a pair and inserted in acc.
MapCollect(op, kt, vt, m, todo, acc) ==
    IF todo = {} THEN Ok(acc)
    ELSE LET k == FirstKey(kt, TakesSelf(op), todo)
             r == Apply(op, PairT(kt, vt), <<k, m[k]>>)
         IN  IF r.ok
             THEN MapCollect(op, kt, vt, m, todo \ {k},
                             MapInsert(acc, r.v[1], r.v[2]))
             ELSE r

BTreeMap_impl(op, kt, vt, m) == MapCollect(op, kt, vt, m, DOMAIN m, <<>>)

(***************************************************************************)
(* impl<T: Reveal> Reveal for Option<T>                                    *)
(***************************************************************************)
\* Mutant: Option without its override of unwrap_as_public.
Option_impl_no_override(op, t, o) ==
    IF op = "unwrap_as_public" THEN default_unwrap_as_public("option", o)
    ELSE IF o.some
    THEN LET r == Apply(op, t, o.x) IN IF r.ok THEN Ok(Some(r.v)) ELSE r
    ELSE Ok(None)

\* self.map(|x| op(x))
Option_impl(op, t, o) ==
    IF o.some
    THEN LET r == Apply(op, t, o.x) IN IF r.ok THEN Ok(Some(r.v)) ELSE r
    ELSE Ok(None)

(***************************************************************************)
(* impl<A: Reveal, B: Reveal> Reveal for (A, B)                            *)
(***************************************************************************)
\* (op(self.0), op(self.1)), the components evaluated left to right
Pair_impl(op, ta, tb, p) ==
    LET r0 == Apply(op, ta, p[1])
    IN  IF ~r0.ok THEN r0
        ELSE LET r1 == Apply(op, tb, p[2])
             IN  IF ~r1.ok THEN r1 ELSE Ok(<<r0.v, r1.v>>)

(***************************************************************************)
(* macro_rules! struct_reveal_impl: ($s, $con ; ($x_ty, $x), ...)          *)
(***************************************************************************)
\* The macro's argument list for a struct with the declared field types decl.
TypedArgs(decl) == [i \in 1 .. Len(Fields) |-> <<decl[Fields[i]], Fields[i]>>]

RECURSIVE struct_reveal_impl_fields(_, _, _, _, _, _)
\* Mutant: the from_add_shared arm calls from_public.
struct_reveal_impl_fields_pub(op, decl, args, v, i, acc) ==
    IF i > Len(args) THEN Ok(acc)
    ELSE LET x == args[i][2]
             x_ty == args[i][1]
             r == IF TakesSelf(op) THEN Apply(op, decl[x], v[x])
                  ELSE Apply("from_public", x_ty, v[x])
         IN  IF r.ok
             THEN struct_reveal_impl_fields(op, decl, args, v, i + 1,
                                            acc @@ (x :> r.v))
             ELSE r

\* $con { $( $x: ..., )* }: the field initialisers from the i-th on, in the
\* order of the argument list.  reveal and unwrap_as_public call the method
\* on self.$x (the declared type); from_public and from_add_shared call
\* <$x_ty as Reveal>::op(other.$x).
struct_reveal_impl_fields(op, decl, args, v, i, acc) ==
    IF i > Len(args) THEN Ok(acc)
    ELSE LET x == args[i][2]
             x_ty == args[i][1]
             r == IF TakesSelf(op) THEN Apply(op, decl[x], v[x])
                  ELSE Apply(op, x_ty, v[x])
         IN  IF r.ok
             THEN struct_reveal_impl_fields(op, decl, args, v, i + 1,
                                            acc @@ (x :> r.v))
             ELSE r

struct_reveal_impl(op, decl, v) ==
    struct_reveal_impl_fields(op, decl, TypedArgs(decl), v, 1, <<>>)

(***************************************************************************)
(* macro_rules! struct_reveal_simp_impl: ($con ; $x, ...)                  *)
(***************************************************************************)
RECURSIVE struct_reveal_simp_impl_fields(_, _, _, _, _, _)
\* As above, with Reveal::op(other.$x) resolved by inference to the
\* declared type of field $x.
struct_reveal_simp_impl_fields(op, decl, args, v, i, acc) ==
    IF i > Len(args) THEN Ok(acc)
    ELSE LET x == args[i]
             r == Apply(op, decl[x], v[x])
         IN  IF r.ok
             THEN struct_reveal_simp_impl_fields(op, decl, args, v, i + 1,
                                                 acc @@ (x :> r.v))
             ELSE r

struct_reveal_simp_impl(op, decl, v) ==
    struct_reveal_simp_impl_fields(op, decl, Fields, v, 1, <<>>)

(***************************************************************************)
(* Static dispatch of a trait method on the type t (every type but Rc,     *)
(* whose cells live in the heap: see Rc_impl).                             *)
(***************************************************************************)
Apply(op, t, v) ==
    CASE t.c = "usize" -> usize_impl(op, v)
      [] t.c = "share" -> share_impl(op, v)
      [] t.c = "phantom" -> PhantomData_impl(op, v)
      [] t.c = "vec" -> Vec_impl(op, t.t, v)
      [] t.c = "map" -> BTreeMap_impl(op, t.k, t.v, v)
      [] t.c = "option" -> Option_impl(op, t.t, v)
      [] t.c = "pair" -> Pair_impl(op, t.a, t.b, v)
      [] t.c = "struct" /\ t.macro = "typed" -> struct_reveal_impl(op, t.f, v)
      [] t.c = "struct" /\ t.macro = "simp" ->
            struct_reveal_simp_impl(op, t.f, v)

(***************************************************************************)
(* impl<T: Reveal + Clone> Reveal for Rc<T> where T::Base: Clone           *)
(***************************************************************************)
\* Rc::new(x) at the free address a.
RcNew(H, a, x) == H @@ (a :> [strong |-> 1, x |-> x])

\* Dropping the handle r: the cell is freed with its last handle.
RcDrop(H, r) ==
    IF H[r].strong = 1
    THEN [b \in DOMAIN H \ {r} |-> H[b]]
    ELSE [H EXCEPT ![r].strong = @ - 1]

\* Mutant: the pointee is converted in place and self returned.
Rc_impl_in_place(op, t, self, H, a) ==
    LET r == Apply(op, t, H[self].x)
    IN  IF r.ok
        THEN [ok |-> TRUE, v |-> self, H |-> [H EXCEPT ![self].x = r.v]]
        ELSE [ok |-> FALSE, v |-> r.v, H |-> RcDrop(H, self)]

\* Rc::new(op((*self).clone())): the pointee is cloned, the clone converted,
\* the result put in a new cell at a; self is dropped when the call returns
\* or unwinds.  The result is the new handle and the heap after the call.
Rc_impl(op, t, self, H, a) ==
    LET clone == H[self].x
        r == Apply(op, t, clone)
    IN  IF r.ok
        THEN [ok |-> TRUE, v |-> a, H |-> RcDrop(RcNew(H, a, r.v), self)]
        ELSE [ok |-> FALSE, v |-> r.v, H |-> RcDrop(H, self)]

\* What == compares of a value of type t: an Rc compares by pointee.
View(t, v, H) == IF t.c = "rc" THEN H[v].x ELSE v

(***************************************************************************)
(* The state machine: a value is created, then converted by the trait's    *)
(* methods until one panics.                                               *)
(***************************************************************************)
Init ==
    /\ ty \in TestTypes
    /\ side \in {"Self", "Base"}
    /\ \E x \in IF side = "Self" THEN SelfVals(ty) ELSE BaseVals(ty) :
         IF ty.c = "rc"
         THEN \E a \in Addr, n \in 0 .. MaxHolders :
                /\ val = a
                /\ heap = (a :> [strong |-> n + 1, x |-> x])
         ELSE val = x /\ heap = <<>>
    /\ lastOp = "new"
    /\ prevOp = "new"
    /\ arg = val
    /\ heap0 = heap
    /\ pub = View(ty, val, heap)

\* The call op(val).
Call(op) ==
    /\ \E r \in IF ty.c = "rc"
                 THEN {Rc_impl(op, ty.t, val, heap, a) : a \in Addr \ DOMAIN heap}
                 ELSE {Apply(op, ty, val) @@ [H |-> heap]} :
         /\ val' = r.v
         /\ heap' = r.H
         /\ side' = IF ~r.ok THEN "Panic"
                    ELSE IF TakesSelf(op) THEN "Base" ELSE "Self"
    /\ lastOp' = op
    /\ prevOp' = lastOp
    /\ arg' = val
    /\ heap0' = heap
    /\ pub' = IF op = "from_public" THEN View(ty, val, heap) ELSE pub
    /\ UNCHANGED ty

\* fn reveal(self) -> Self::Base
Reveal ==
    /\ side = "Self"
    /\ Call("reveal")

\* fn from_add_shared(b: Self::Base) -> Self
FromAddShared ==
    /\ side = "Base"
    /\ Call("from_add_shared")

\* fn from_public(b: Self::Base) -> Self
FromPublic ==
    /\ side = "Base"
    /\ Call("from_public")

\* fn unwrap_as_public(self) -> Self::Base
UnwrapAsPublic ==
    /\ side = "Self"
    /\ Call("unwrap_as_public")

Next == Reveal \/ FromAddShared \/ FromPublic \/ UnwrapAsPublic

Spec == Init /\ [][Next]_vars

(***************************************************************************)
(* Vocabulary of the properties                                            *)
(***************************************************************************)
\* A trait method has been called.
Called == lastOp \in Ops

\* The argument and the result of the last call, as == sees them.
In == View(ty, arg, heap0)
Out == View(ty, val, heap)

RECURSIVE NoShare(_)
\* Every leaf of type t overrides unwrap_as_public (usize, PhantomData).
NoShare(t) ==
    CASE t.c = "usize" -> TRUE
      [] t.c = "share" -> FALSE
      [] t.c = "phantom" -> TRUE
      [] t.c \in {"vec", "option", "rc"} -> NoShare(t.t)
      [] t.c = "map" -> NoShare(t.k) /\ NoShare(t.v)
      [] t.c = "pair" -> NoShare(t.a) /\ NoShare(t.b)
      [] t.c = "struct" -> \A i \in 1 .. Len(Fields) : NoShare(t.f[Fields[i]])

\* The elements, entries or fields directly contained in the value v of
\* type t, each with its type.
Children(t, v) ==
    CASE t.c \in {"usize", "share", "phantom"} -> {}
      [] t.c = "vec" -> {<<t.t, v[i]>> : i \in 1 .. Len(v)}
      [] t.c = "map" ->
            {<<t.k, k>> : k \in DOMAIN v} \cup {<<t.v, v[k]>> : k \in DOMAIN v}
      [] t.c = "option" -> IF v.some THEN {<<t.t, v.x>>} ELSE {}
      [] t.c = "rc" -> {<<t.t, v>>}
      [] t.c = "pair" -> {<<t.a, v[1]>>, <<t.b, v[2]>>}
      [] t.c = "struct" -> {<<t.f[Fields[i]], v[Fields[i]]>> : i \in 1 .. Len(Fields)}

RECURSIVE HasShareLeaf(_, _)
\* The value v of type t holds, at any depth, a value of the leaf type
\* that does not override unwrap_as_public.
HasShareLeaf(t, v) ==
    \/ t.c = "share"
    \/ \E ch \in Children(t, v) : HasShareLeaf(ch[1], ch[2])

\* The payload of the default unwrap_as_public's panic.
SharePanic == Panic("share").v

(***************************************************************************)
(* C1: round trip.  For a type whose leaves all override unwrap_as_public  *)
(* (usize, PhantomData), unwrap_as_public(from_public(b)) returns without  *)
(* panicking a value equal to b.                                           *)
(***************************************************************************)
C1_RoundTrip ==
    (lastOp = "unwrap_as_public" /\ prevOp = "from_public" /\ NoShare(ty))
        => side = "Base" /\ Out = pub

C1_Witness ==
    /\ ty = MapT(USIZE, OptionT(USIZE))
    /\ lastOp = "unwrap_as_public" /\ prevOp = "from_public"
    /\ side = "Base"
    /\ val = (0 :> Some(1) @@ 1 :> None)

(***************************************************************************)
(* C2: reveal of an ordered map m has as many entries as m and holds       *)
(* (reveal(k), reveal(v)) for every entry (k, v) of m.                     *)
(***************************************************************************)
C2_MapPairing ==
    (ty.c = "map" /\ lastOp = "reveal")
        => /\ Cardinality(DOMAIN val) = Cardinality(DOMAIN arg)
           /\ \A k \in DOMAIN arg :
                LET rk == Apply("reveal", ty.k, k).v
                IN  /\ rk \in DOMAIN val
                    /\ val[rk] = Apply("reveal", ty.v, arg[k]).v

(***************************************************************************)
(* C3: unwrap_as_public on a value of a type that does not override the    *)
(* default panics with a payload naming the type; it returns no Base.      *)
(***************************************************************************)
C3_DefaultPanics ==
    (ty.c = "share" /\ lastOp = "unwrap_as_public")
        => /\ side = "Panic"
           /\ val.msg = "No unwrap as public for"
           /\ val.type = ty.c

C3_Witness ==
    /\ ty = SHARE
    /\ lastOp = "unwrap_as_public" /\ prevOp = "from_public"
    /\ arg = [rep |-> "Public", n |-> 1]
    /\ side = "Panic"

(***************************************************************************)
(* C4: unwrap_as_public on a composite holding, at any depth, a leaf whose *)
(* unwrap_as_public panics, panics as a whole: the outcome is the leaf's   *)
(* panic and no partial value.  It returns only when unwrap_as_public      *)
(* returns on every element, entry or field it contains.                   *)
(***************************************************************************)
C4_FailurePropagates ==
    (lastOp = "unwrap_as_public" /\ Children(ty, In) # {})
        => /\ HasShareLeaf(ty, In) => side = "Panic" /\ val = SharePanic
           /\ side # "Panic"
                => /\ side = "Base"
                   /\ \A ch \in Children(ty, In) :
                        Apply("unwrap_as_public", ch[1], ch[2]).ok

C4_Witness ==
    /\ ty = VecT(OptionT(SHARE))
    /\ lastOp = "unwrap_as_public"
    /\ arg = <<None, Some([rep |-> "Public", n |-> 0])>>
    /\ side = "Panic"

(***************************************************************************)
(* C5: each of the four methods on a sequence s returns a sequence of the  *)
(* length of s whose i-th element is the method's result on the i-th       *)
(* element of s; where the method panics on an element (unwrap_as_public   *)
(* on a non-overriding leaf), the call panics instead of returning.        *)
(***************************************************************************)
C5_VecIsomorphism ==
    (ty.c = "vec" /\ Called)
        => IF \A i \in 1 .. Len(arg) : Apply(lastOp, ty.t, arg[i]).ok
           THEN /\ side # "Panic"
                /\ Len(val) = Len(arg)
                /\ \A i \in 1 .. Len(arg) :
                     Apply(lastOp, ty.t, arg[i]) = Ok(val[i])
           ELSE side = "Panic"

C5_Witness ==
    /\ ty = VecT(SHARE)
    /\ lastOp = "reveal"
    /\ arg = <<[rep |-> "Shared", n |-> 1], [rep |-> "Public", n |-> 0]>>
    /\ val = <<1, 0>>

(***************************************************************************)
(* C6: for a 3-field struct, reveal, from_public and from_add_shared as    *)
(* generated by struct_reveal_impl and by struct_reveal_simp_impl return   *)
(* the struct whose every field is the method's result on the field of     *)
(* the same name of the argument: exactly the fields a, b, c.              *)
(***************************************************************************)
C6_DerivationEquivalence ==
    (ty.c = "struct" /\ lastOp \in Ops \ {"unwrap_as_public"})
        => /\ side # "Panic"
           /\ DOMAIN val = {"a", "b", "c"}
           /\ \A x \in {"a", "b", "c"} :
                Apply(lastOp, ty.f[x], arg[x]) = Ok(val[x])
           /\ struct_reveal_impl(lastOp, ty.f, arg) = Ok(val)
           /\ struct_reveal_simp_impl(lastOp, ty.f, arg) = Ok(val)

C6_Witness ==
    /\ ty = StructT("typed", USIZE, SHARE, VecT(USIZE))
    /\ lastOp = "from_add_shared"
    /\ arg = [a |-> 1, b |-> 0, c |-> <<0, 1>>]
    /\ val = [a |-> 1, b |-> [rep |-> "Shared", n |-> 0], c |-> <<0, 1>>]

(***************************************************************************)
(* C7: each of the four methods maps None to None and Some(x) to Some of   *)
(* the method's result on x (panicking where the method panics on x).      *)
(***************************************************************************)
C7_OptionPreservesAbsence ==
    (ty.c = "option" /\ Called)
        => IF arg.some
           THEN LET r == Apply(lastOp, ty.t, arg.x)
                IN  IF r.ok
                    THEN side # "Panic" /\ val = Some(r.v)
                    ELSE side = "Panic" /\ val = r.v
           ELSE side # "Panic" /\ val = None

C7_Witness ==
    /\ ty = OptionT(SHARE)
    /\ lastOp = "from_public"
    /\ arg = Some(1)
    /\ val = Some([rep |-> "Public", n |-> 1])

(***************************************************************************)
(* C8: on usize each of the four methods returns its argument and none     *)
(* panics.                                                                 *)
(***************************************************************************)
C8_UsizeIdentity ==
    (ty.c = "usize" /\ Called) => side # "Panic" /\ val = arg

C8_Witness ==
    /\ ty = USIZE
    /\ lastOp = "unwrap_as_public" /\ prevOp = "from_add_shared"
    /\ arg = 1 /\ val = 1
    /\ side = "Base"

(***************************************************************************)
(* C9: a method called on an Rc leaves every cell another holder can       *)
(* reach alive with its pointee unchanged, and returns the only handle to  *)
(* a cell that was not allocated before the call (so not the argument's)   *)
(* and holds the method's result on the argument's pointee.                *)
(***************************************************************************)
C9_RcFrame ==
    (ty.c = "rc" /\ Called)
        => /\ \A a \in DOMAIN heap0 :
                (a # arg \/ heap0[arg].strong > 1)
                    => a \in DOMAIN heap /\ heap[a].x = heap0[a].x
           /\ side # "Panic"
                => /\ val \notin DOMAIN heap0
                   /\ heap[val].strong = 1
                   /\ Ok(heap[val].x) = Apply(lastOp, ty.t, heap0[arg].x)

C9_Witness ==
    /\ ty = RcT(VecT(USIZE))
    /\ lastOp = "reveal"
    /\ heap0[arg].strong = 3
    /\ heap0[arg].x = <<1, 0>>
    /\ side = "Base"
    /\ heap[arg].strong = 2

(***************************************************************************)
(* C10: unwrap_as_public panics exactly when the value holds a value of    *)
(* the non-overriding leaf type; on an empty Vec, an empty BTreeMap, None  *)
(* and PhantomData of such a type it returns the empty Vec, the empty map, *)
(* None and PhantomData.                                                   *)
(***************************************************************************)
C10_EmptyCompositesUnwrap ==
    lastOp = "unwrap_as_public"
        => /\ side = "Panic" <=> HasShareLeaf(ty, In)
           /\ (~NoShare(ty) /\ ty.c \in {"vec", "map"} /\ In = <<>>)
                => side = "Base" /\ val = <<>>
           /\ (~NoShare(ty) /\ ty.c = "option" /\ ~In.some)
                => side = "Base" /\ val = None
           /\ (ty.c = "phantom" /\ ~NoShare(ty.t))
                => side = "Base" /\ val = PhantomData

C10_Witness ==
    /\ ty = MapT(SHARE, USIZE)
    /\ lastOp = "unwrap_as_public"
    /\ arg = <<>>
    /\ side = "Base" /\ val = <<>>

====
